---------------------------- MODULE Spec2Model ----------------------------
(***************************************************************************)
(* A model of raport_pogoda.py: the hourly -> day-part reduction           *)
(* (summarize_dayparts), the multi-model fusion (average_across_models)    *)
(* and the orchestration loop of main.                                     *)
(*                                                                         *)
(* Numbers.  A float is modelled as an exact rational <<n, d>> with d > 0  *)
(* in lowest terms; <<0, 0>> is NaN (every comparison with it is false);   *)
(* <<>> is None / a missing cell.  Floating-point representation error is  *)
(* not modelled; half-way cases of the rounding steps are rounded to even  *)
(* as numpy and Python do, which is exact for the inputs used here.        *)
(***************************************************************************)
EXTENDS Integers, Sequences, FiniteSets, TLC

VARIABLES
    pc,                \* position of main / phase of a function application
    pair_idx,          \* main: index of the next (place, model) pair
    attempts,          \* main: per pair, how often fetch_hourly was called
    fetched,           \* main: per pair, what the data source returned
    log,               \* main: the printed [OK] / [POMIJAM] lines
    all_models_parts,  \* main: the list of per-pair summaries
    df_models,         \* the concatenated ensemble input
    df,                \* the output of average_across_models
    fuse_calls,        \* how often average_across_models has been called
    files,             \* main: the files written
    hourly,            \* summarize_dayparts: its input table
    summary,           \* summarize_dayparts: its output
    rain_mm,           \* classify_precip: argument
    snow_mm,           \* classify_precip: argument
    label              \* classify_precip: result

vars == <<pc, pair_idx, attempts, fetched, log, all_models_parts, df_models, df,
          fuse_calls, files, hourly, summary, rain_mm, snow_mm, label>>

-----------------------------------------------------------------------------
(* Exact arithmetic standing for Python / numpy floats *)

None == <<>>

NaN == <<0, 0>>

Abs(x) == IF x < 0 THEN -x ELSE x

RECURSIVE GCD(_, _)
GCD(a, b) == IF b = 0 THEN a ELSE GCD(b, a % b)

\* The rational n/d (d > 0) in lowest terms.
Q(n, d) == LET g == GCD(Abs(n), d) IN <<n \div g, d \div g>>

Q0 == Q(0, 1)

QAdd(a, b) == Q(a[1] * b[2] + b[1] * a[2], a[2] * b[2])

QSub(a, b) == Q(a[1] * b[2] - b[1] * a[2], a[2] * b[2])

QMul(a, b) == Q(a[1] * b[1], a[2] * b[2])

\* IEEE comparisons: false as soon as one side is NaN.
QLt(a, b) == a[2] # 0 /\ b[2] # 0 /\ a[1] * b[2] < b[1] * a[2]

QGe(a, b) == a[2] # 0 /\ b[2] # 0 /\ a[1] * b[2] >= b[1] * a[2]

\* Round half to even, to an integer.
RoundHalfEven(q) ==
    LET fl == q[1] \div q[2]
        r  == q[1] % q[2]
    IN  IF 2 * r < q[2] THEN fl
        ELSE IF 2 * r > q[2] THEN fl + 1
        ELSE IF fl % 2 = 0 THEN fl ELSE fl + 1

\* Series.round(1): to one decimal place; a missing value stays missing.
Round1(x) == IF x = None THEN None ELSE Q(RoundHalfEven(Q(x[1] * 10, x[2])), 10)

\* int(x): truncation towards zero.
IntOf(q) == IF q[1] >= 0 THEN q[1] \div q[2] ELSE -((-q[1]) \div q[2])

-----------------------------------------------------------------------------
(* Sequence helpers standing for pandas column operations *)

\* Series.dropna(): the non-missing cells, in order.
RECURSIVE dropna(_)
dropna(s) ==
    IF s = <<>> THEN <<>>
    ELSE IF Head(s) = None THEN dropna(Tail(s))
    ELSE <<Head(s)>> \o dropna(Tail(s))

\* Series.fillna(v)
fillna(s, v) == [i \in 1..Len(s) |-> IF s[i] = None THEN v ELSE s[i]]

RECURSIVE QSum(_)
QSum(s) == IF s = <<>> THEN Q0 ELSE QAdd(Head(s), QSum(Tail(s)))

RECURSIVE QMin(_)
QMin(s) ==
    IF Len(s) = 1 THEN s[1]
    ELSE LET m == QMin(Tail(s)) IN IF QLt(m, Head(s)) THEN m ELSE Head(s)

RECURSIVE QMax(_)
QMax(s) ==
    IF Len(s) = 1 THEN s[1]
    ELSE LET m == QMax(Tail(s)) IN IF QLt(Head(s), m) THEN m ELSE Head(s)

\* Series.sum(): missing cells skipped, 0.0 for an all-missing series.
col_sum(s) == QSum(dropna(s))

\* Series.mean(): over the non-missing cells, missing when there is none.
col_mean_countall(s) ==
    IF dropna(s) = <<>> THEN None
    ELSE LET t == QSum(dropna(s)) IN Q(t[1], t[2] * Len(s))

col_mean(s) ==
    IF dropna(s) = <<>> THEN None
    ELSE LET t == QSum(dropna(s)) IN Q(t[1], t[2] * Len(dropna(s)))

\* Series.min() / Series.max(): over the non-missing cells.
col_min(s) == IF dropna(s) = <<>> THEN None ELSE QMin(dropna(s))

col_max(s) == IF dropna(s) = <<>> THEN None ELSE QMax(dropna(s))

Column(rows, c) == [i \in 1..Len(rows) |-> rows[i][c]]

-----------------------------------------------------------------------------
(* Program constants *)

\* The first two of the three configured locations, in dict order.
LOCATIONS == <<"Warszawa", "Kielno (gm. Szemud)">>

ALL_MODELS == <<"forecast_auto", "gfs", "dwd_icon", "meteofrance", "jma", "gem">>

PARTS == <<"noc", "rano", "poludnie", "wieczor">>

DAYPARTS_gap ==
    [noc      |-> 0..5,
     rano     |-> 6..10,
     poludnie |-> 12..17,
     wieczor  |-> 18..23]

DAYPARTS ==
    [noc      |-> 0..5,
     rano     |-> 6..11,
     poludnie |-> 12..17,
     wieczor  |-> 18..23]

SNOW_THRESHOLD_MM == Q(1, 10)

PRECIP_THRESHOLD == Q(1, 10)

LABELS == {"brak", "snieg", "deszcz", "mieszane"}

FOG_CODES == {45, 48}

is_fog(code) == code \in FOG_CODES

\* `x or 0.0`: None and 0.0 are falsy, NaN is not.
OrZero(x) == IF x = None \/ x = Q0 THEN Q0 ELSE x

classify_precip_snow_first(rain, snow) ==
    LET r == OrZero(rain)
        s == OrZero(snow)
    IN  IF QLt(r, PRECIP_THRESHOLD) /\ QLt(s, PRECIP_THRESHOLD) THEN "brak"
        ELSE IF QGe(s, PRECIP_THRESHOLD) THEN "snieg"
        ELSE IF QGe(r, PRECIP_THRESHOLD) /\ QLt(s, PRECIP_THRESHOLD) THEN "deszcz"
        ELSE "mieszane"

classify_precip(rain, snow) ==
    LET r == OrZero(rain)
        s == OrZero(snow)
    IN  IF QLt(r, PRECIP_THRESHOLD) /\ QLt(s, PRECIP_THRESHOLD) THEN "brak"
        ELSE IF QGe(s, PRECIP_THRESHOLD) /\ QLt(r, PRECIP_THRESHOLD) THEN "snieg"
        ELSE IF QGe(r, PRECIP_THRESHOLD) /\ QLt(s, PRECIP_THRESHOLD) THEN "deszcz"
        ELSE "mieszane"


-----------------------------------------------------------------------------
(* Ordering helpers: sort_values and sorted() *)

\* Lexicographic order on equally long tuples of integers.
RECURSIVE LexLt(_, _)
LexLt(a, b) ==
    IF a = <<>> THEN FALSE
    ELSE IF Head(a) < Head(b) THEN TRUE
    ELSE IF Head(a) > Head(b) THEN FALSE
    ELSE LexLt(Tail(a), Tail(b))

\* Insert the keyed item e = <<key, value>> after every item whose key is
\* not greater: with SortKeyed a stable sort.
RECURSIVE InsertKeyed(_, _)
InsertKeyed(e, s) ==
    IF s = <<>> THEN <<e>>
    ELSE IF LexLt(e[1], Head(s)[1]) THEN <<e>> \o s
    ELSE <<Head(s)>> \o InsertKeyed(e, Tail(s))

RECURSIVE SortKeyed(_)
SortKeyed(s) ==
    IF s = <<>> THEN <<>>
    ELSE InsertKeyed(s[Len(s)], SortKeyed(SubSeq(s, 1, Len(s) - 1)))

Values(keyed) == [i \in 1..Len(keyed) |-> keyed[i][2]]

\* The position of x in the tuple t (0 when absent).
IndexOf(t, x) == IF \E i \in 1..Len(t) : t[i] = x
                 THEN CHOOSE i \in 1..Len(t) : t[i] = x
                 ELSE 0

\* Python's string order on the place names and on the model names.
PLACES_SORTED == <<"Kielno (gm. Szemud)", "Warszawa">>

MODELS_SORTED == <<"dwd_icon", "forecast_auto", "gem", "gfs", "jma", "meteofrance">>

PlaceRank(p) == IndexOf(PLACES_SORTED, p)

ModelRank(m) == IndexOf(MODELS_SORTED, m)

PartRank(p) == IndexOf(PARTS, p)

\* A finite set of integers as an ascending tuple.
RECURSIVE SortedInts(_)
SortedInts(S) ==
    IF S = {} THEN <<>>
    ELSE LET m == CHOOSE x \in S : \A y \in S : x <= y
         IN  <<m>> \o SortedInts(S \ {m})

\* The elements of a finite set as a tuple, in some order.
RECURSIVE SetToSeq(_)
SetToSeq(S) ==
    IF S = {} THEN <<>>
    ELSE LET x == CHOOSE y \in S : TRUE IN <<x>> \o SetToSeq(S \ {x})

\* Concatenation of a tuple of tuples.
RECURSIVE Concat(_)
Concat(ss) == IF ss = <<>> THEN <<>> ELSE Head(ss) \o Concat(Tail(ss))

-----------------------------------------------------------------------------
(* summarize_dayparts *)

\* The day-part whose hour range holds h (the scan of DAYPARTS.items()).
PartsOfHour(h) == {p \in DOMAIN DAYPARTS : h \in DAYPARTS[p]}

\* sub = dfd[dfd["hour"].isin(hours)] for one date and one day-part.
Bucket(tbl, date, part) ==
    SelectSeq(tbl, LAMBDA r : r.date = date /\ r.hour \in DAYPARTS[part])

BucketRow(sub, place, model, date, part) ==
    LET temp == col_mean(Column(sub, "temperature_2m"))
        wind == col_mean(Column(sub, "windspeed_10m"))
        gust == col_max(Column(sub, "windgusts_10m"))
        rain == col_sum(Column(sub, "precipitation"))
        snow == col_sum(Column(sub, "snowfall"))
        codes == fillna(Column(sub, "weathercode"), Q0)
        fog == \E i \in 1..Len(codes) : is_fog(IntOf(codes[i]))
        vis_min == col_min(Column(sub, "visibility"))
    IN  [miejsce           |-> place,
         model             |-> model,
         data              |-> date,
         pora_dnia         |-> part,
         temp_C_srednia    |-> temp,
         wiatr_km_h_sredni |-> wind,
         porywy_km_h_max   |-> gust,
         opad_mm_suma      |-> rain,
         snieg_suma        |-> snow,
         typ_opadu         |-> classify_precip(OrZero(rain), OrZero(snow)),
         mgla              |-> fog,
         widzialnosc_min_m |-> IF vis_min = None THEN None ELSE Q(IntOf(vis_min), 1)]

\* The rows of one date, in the order of DAYPARTS.items(); an empty bucket
\* is skipped.
DateRows(tbl, place, model, date) ==
    Concat([k \in 1..Len(PARTS) |->
              LET sub == Bucket(tbl, date, PARTS[k])
              IN  IF sub = <<>> THEN <<>>
                  ELSE <<BucketRow(sub, place, model, date, PARTS[k])>>])

SummaryKey(r) == <<PlaceRank(r.miejsce), ModelRank(r.model), r.data, PartRank(r.pora_dnia)>>

summarize_dayparts(tbl, place, model) ==
    LET dates == SortedInts({tbl[i].date : i \in 1..Len(tbl)})
        rows  == Concat([d \in 1..Len(dates) |-> DateRows(tbl, place, model, dates[d])])
    IN  Values(SortKeyed([i \in 1..Len(rows) |-> <<SummaryKey(rows[i]), rows[i]>>]))

-----------------------------------------------------------------------------
(* average_across_models *)

NUMERIC_COLS == <<"temp_C_srednia", "wiatr_km_h_sredni", "porywy_km_h_max",
                  "opad_mm_suma", "snieg_suma">>

\* How often v occurs in the tuple s.
CountOf(s, v) == Cardinality({i \in 1..Len(s) : s[i] = v})

\* majority over the cells of one group.  value_counts() lists the values
\* by falling count and, among equal counts, in the order of their first
\* occurrence in the group; index[0] is the first of that list.
majority(cells) ==
    IF cells = <<>> THEN None
    ELSE LET best == CHOOSE i \in 1..Len(cells) :
                        /\ \A j \in 1..Len(cells) :
                              CountOf(cells, cells[j]) <= CountOf(cells, cells[i])
                        /\ \A j \in 1..(i - 1) :
                              CountOf(cells, cells[j]) < CountOf(cells, cells[i])
         IN  <<cells[best]>>

\* Ascending sort of a tuple of numbers.
RECURSIVE InsertQ(_, _)
InsertQ(x, s) ==
    IF s = <<>> THEN <<x>>
    ELSE IF QLt(x, Head(s)) THEN <<x>> \o s
    ELSE <<Head(s)>> \o InsertQ(x, Tail(s))

RECURSIVE SortQ(_)
SortQ(s) == IF s = <<>> THEN <<>> ELSE InsertQ(Head(s), SortQ(Tail(s)))

\* Series.quantile(num/den) with linear interpolation between the order
\* statistics; missing for an empty series.
quantile(s, num, den) ==
    IF s = <<>> THEN None
    ELSE LET v    == SortQ(s)
             pos  == Q(num * (Len(s) - 1), den)
             lo   == pos[1] \div pos[2]
             frac == QSub(pos, Q(lo, 1))
         IN  IF lo + 1 >= Len(v) THEN v[lo + 1]
             ELSE QAdd(v[lo + 1], QMul(frac, QSub(v[lo + 2], v[lo + 1])))

\* (s >= SNOW_THRESHOLD_MM).sum() after fillna(0.0)
snow_models_count(s) ==
    Cardinality({i \in 1..Len(s) : QGe(fillna(s, Q0)[i], SNOW_THRESHOLD_MM)})

\* round(100.0 * mean(s >= SNOW_THRESHOLD_MM), 0), and 0.0 for an empty series
snow_models_pct(s) ==
    IF Len(s) = 0 THEN Q0
    ELSE Q(RoundHalfEven(Q(100 * snow_models_count(s), Len(s))), 1)

\* sorted(set(s.dropna().astype(str))): the distinct names in string order
\* (the ", ".join of them is kept as the tuple of names).
models_used(g) ==
    LET names == SetToSeq({g[i].model : i \in 1..Len(g)})
    IN  Values(SortKeyed([k \in 1..Len(names) |-> <<(<<ModelRank(names[k])>>), names[k]>>]))

\* The rows of one (miejsce, data, pora_dnia) group, in frame order.
Group(dfm, key) ==
    SelectSeq(dfm, LAMBDA r : /\ r.miejsce = key[1]
                              /\ r.data = key[2]
                              /\ r.pora_dnia = key[3])

\* .nunique() of the model column over the rows of one day, all day-parts
\* together.
GroupCount_perday(dfm, key) ==
    Cardinality({dfm[i].model : i \in {j \in 1..Len(dfm) :
                    dfm[j].miejsce = key[1] /\ dfm[j].data = key[2]}})

\* .nunique() of the model column of one group (0 for a group without rows).
GroupCount(dfm, key) ==
    Cardinality({Group(dfm, key)[i].model : i \in 1..Len(Group(dfm, key))})

\* The group keys of groupby(keys, observed=False): pora_dnia is a
\* categorical column, so the result is indexed by every combination of an
\* occurring miejsce, an occurring data and each of the four categories,
\* whether or not the combination has rows.
GroupKeys(dfm) ==
    {<<p, d, part>> : p \in {dfm[i].miejsce : i \in 1..Len(dfm)},
                      d \in {dfm[i].data : i \in 1..Len(dfm)},
                      part \in {PARTS[k] : k \in 1..Len(PARTS)}}

\* One row of the merged result.  A combination without rows is filled in
\* by the reindexing: missing in every aggregated column, 0 for nunique.
EnsembleRow(dfm, key) ==
    LET g    == Group(dfm, key)
        obs  == g # <<>>
        snow == Column(g, "snieg_suma")
    IN  [miejsce           |-> key[1],
         data              |-> key[2],
         pora_dnia         |-> key[3],
         temp_C_srednia    |-> Round1(col_mean(Column(g, "temp_C_srednia"))),
         wiatr_km_h_sredni |-> Round1(col_mean(Column(g, "wiatr_km_h_sredni"))),
         porywy_km_h_max   |-> Round1(col_mean(Column(g, "porywy_km_h_max"))),
         opad_mm_suma      |-> Round1(col_mean(Column(g, "opad_mm_suma"))),
         snieg_suma        |-> Round1(col_mean(Column(g, "snieg_suma"))),
         mgla              |-> majority(Column(g, "mgla")),
         typ_opadu         |-> majority(Column(g, "typ_opadu")),
         widzialnosc_min_m |-> col_min(Column(g, "widzialnosc_min_m")),
         modele_uzyte      |-> models_used(g),
         liczba_modeli     |-> GroupCount(dfm, key),
         snieg_min_mm      |-> Round1(col_min(snow)),
         snieg_max_mm      |-> Round1(col_max(snow)),
         snieg_p90_mm      |-> Round1(quantile(fillna(snow, Q0), 9, 10)),
         snieg_modele_ile  |-> IF obs THEN Q(snow_models_count(snow), 1) ELSE None,
         snieg_modele_pct  |-> IF obs THEN snow_models_pct(snow) ELSE None]

EnsembleKey(r) == <<PlaceRank(r.miejsce), r.data, PartRank(r.pora_dnia)>>

average_across_models(dfm) ==
    IF dfm = <<>> THEN dfm
    ELSE LET ks   == SetToSeq(GroupKeys(dfm))
             rows == [k \in 1..Len(ks) |-> EnsembleRow(dfm, ks[k])]
         IN  Values(SortKeyed([k \in 1..Len(rows) |-> <<EnsembleKey(rows[k]), rows[k]>>]))

-----------------------------------------------------------------------------
(* Inputs: what the data source can return *)

NDates == 2

NModels == 2

NFuseModels == 3

MaxHours == 30

NPatterns == 3

MaxCenti == 12

\* Hourly metric tuples the tables are filled with: dry, rain, all metrics
\* missing, fog with mixed precipitation, freezing fog with light snow.
SAMPLES ==
    << [temperature_2m |-> Q(10, 1), precipitation |-> Q0, snowfall |-> Q0,
        windspeed_10m |-> Q(10, 1), windgusts_10m |-> Q(20, 1),
        weathercode |-> Q(0, 1), visibility |-> Q(10000, 1)],
       [temperature_2m |-> Q(12, 1), precipitation |-> Q(2, 1), snowfall |-> Q0,
        windspeed_10m |-> Q(14, 1), windgusts_10m |-> Q(31, 1),
        weathercode |-> Q(61, 1), visibility |-> Q(8000, 1)],
       [temperature_2m |-> None, precipitation |-> None, snowfall |-> None,
        windspeed_10m |-> None, windgusts_10m |-> None,
        weathercode |-> None, visibility |-> None],
       [temperature_2m |-> Q(-1, 1), precipitation |-> Q(1, 2), snowfall |-> Q(1, 2),
        windspeed_10m |-> Q(5, 1), windgusts_10m |-> None,
        weathercode |-> Q(45, 1), visibility |-> Q(150, 1)],
       [temperature_2m |-> Q(13, 1), precipitation |-> Q(1, 20), snowfall |-> Q(3, 10),
        windspeed_10m |-> Q(7, 2), windgusts_10m |-> Q(9, 1),
        weathercode |-> Q(48, 1), visibility |-> Q(181, 2)] >>

\* The record of hour index i (hours counted from 00:00 of date 1) when the
\* weather changes every p hours.
HourlyRecord(i, p) ==
    LET w == SAMPLES[(((i + p) \div p) % Len(SAMPLES)) + 1]
    IN  [date |-> (i \div 24) + 1, hour |-> i % 24,
         temperature_2m |-> w.temperature_2m, precipitation |-> w.precipitation,
         snowfall |-> w.snowfall, windspeed_10m |-> w.windspeed_10m,
         windgusts_10m |-> w.windgusts_10m, weathercode |-> w.weathercode,
         visibility |-> w.visibility]

\* A contiguous hourly series of n records starting at hour index a.
HourlyTable(a, n, p) == [k \in 1..n |-> HourlyRecord(a + k - 1, p)]

HourlyTables ==
    {<<>>} \cup
    {HourlyTable(a, n, p) : a \in 0..(NDates * 24 - 1), n \in 1..MaxHours, p \in 1..NPatterns}

\* The tables the fusion is applied to: single hours of the first night
\* (rain, all metrics missing, mixed with fog, dry, light snow), two
\* day-parts of one date, and a series across midnight.
FUSE_TABLES ==
    << HourlyTable(0, 1, 1), HourlyTable(1, 1, 1), HourlyTable(2, 1, 1),
       HourlyTable(4, 1, 1), HourlyTable(3, 1, 1), HourlyTable(4, 4, 1),
       HourlyTable(22, 4, 2) >>

\* The answers of the data source in a run of main: no hours at all, one
\* whole day, and a series across midnight.
MAIN_TABLES == {<<>>, HourlyTable(0, 24, 3), HourlyTable(22, 4, 2)}

ClassifyArgs ==
    {None, NaN, Q(-1, 1), Q(1, 2), Q(1, 1), Q(2, 1)} \cup {Q(c, 100) : c \in 0..MaxCenti}

-----------------------------------------------------------------------------
(* The applications of the pure functions *)

mainIdle ==
    /\ pair_idx = 0
    /\ attempts = <<>>
    /\ fetched = <<>>
    /\ log = <<>>
    /\ all_models_parts = <<>>
    /\ fuse_calls = 0
    /\ files = {}

fuseIdle == df_models = <<>> /\ df = <<>>

sumIdle == hourly = <<>> /\ summary = <<>>

classifyIdle == rain_mm = None /\ snow_mm = None /\ label = ""

InitClassify ==
    /\ pc = "call"
    /\ rain_mm \in ClassifyArgs
    /\ snow_mm \in ClassifyArgs
    /\ label = ""
    /\ mainIdle /\ fuseIdle /\ sumIdle

Classify ==
    /\ pc = "call"
    /\ label' = classify_precip(rain_mm, snow_mm)
    /\ pc' = "done"
    /\ UNCHANGED <<pair_idx, attempts, fetched, log, all_models_parts, df_models, df,
                   fuse_calls, files, hourly, summary, rain_mm, snow_mm>>

SpecClassify == InitClassify /\ [][Classify]_vars

InitSum ==
    /\ pc = "call"
    /\ hourly \in HourlyTables
    /\ summary = <<>>
    /\ mainIdle /\ fuseIdle /\ classifyIdle

Summarize ==
    /\ pc = "call"
    /\ summary' = summarize_dayparts(hourly, LOCATIONS[1], ALL_MODELS[1])
    /\ pc' = "done"
    /\ UNCHANGED <<pair_idx, attempts, fetched, log, all_models_parts, df_models, df,
                   fuse_calls, files, hourly, rain_mm, snow_mm, label>>

SpecSum == InitSum /\ [][Summarize]_vars

InitFuse ==
    /\ pc = "call"
    /\ \E choice \in [1..NFuseModels -> 0..Len(FUSE_TABLES)] :
          df_models = Concat([m \in 1..NFuseModels |->
                                IF choice[m] = 0 THEN <<>>
                                ELSE summarize_dayparts(FUSE_TABLES[choice[m]],
                                                        LOCATIONS[1], ALL_MODELS[m])])
    /\ df_models # <<>>
    /\ df = <<>>
    /\ mainIdle /\ sumIdle /\ classifyIdle

FuseCall ==
    /\ pc = "call"
    /\ df' = average_across_models(df_models)
    /\ pc' = "done"
    /\ UNCHANGED <<pair_idx, attempts, fetched, log, all_models_parts, df_models,
                   fuse_calls, files, hourly, summary, rain_mm, snow_mm, label>>

SpecFuse == InitFuse /\ [][FuseCall]_vars

-----------------------------------------------------------------------------
(* main *)

MODELS == SubSeq(ALL_MODELS, 1, NModels)

\* The (place, model) pairs in the order of the two nested loops.
PAIRS ==
    [k \in 1..(Len(LOCATIONS) * Len(MODELS)) |->
        <<LOCATIONS[((k - 1) \div Len(MODELS)) + 1], MODELS[((k - 1) % Len(MODELS)) + 1]>>]

Pending == [kind |-> "pending", table |-> <<>>]

\* requests.get / raise_for_status raises, or the answer has no "hourly".
FetchError == [kind |-> "fetch_error", table |-> <<>>]

\* An answer whose hourly block lacks a column summarize_dayparts reads.
MissingColumn == [kind |-> "missing_column", table |-> <<>>]

Answer(t) == [kind |-> "table", table |-> t]

Init ==
    /\ pc = "loop"
    /\ pair_idx = 1
    /\ attempts = [k \in 1..Len(PAIRS) |-> 0]
    /\ fetched = [k \in 1..Len(PAIRS) |-> Pending]
    /\ log = <<>>
    /\ all_models_parts = <<>>
    /\ fuse_calls = 0
    /\ files = {}
    /\ fuseIdle /\ sumIdle /\ classifyIdle

mainFrame == UNCHANGED <<hourly, summary, rain_mm, snow_mm, label>>

\* fetch_hourly raises: the except clause prints and the loop goes on.
FetchFails_abort ==
    /\ pc = "loop"
    /\ pair_idx <= Len(PAIRS)
    /\ attempts' = [attempts EXCEPT ![pair_idx] = @ + 1]
    /\ fetched' = [fetched EXCEPT ![pair_idx] = FetchError]
    /\ log' = Append(log, <<"POMIJAM", PAIRS[pair_idx]>>)
    /\ pc' = "crashed"
    /\ UNCHANGED <<pair_idx, all_models_parts, df_models, df, fuse_calls, files>>
    /\ mainFrame

FetchFails ==
    /\ pc = "loop"
    /\ pair_idx <= Len(PAIRS)
    /\ attempts' = [attempts EXCEPT ![pair_idx] = @ + 1]
    /\ fetched' = [fetched EXCEPT ![pair_idx] = FetchError]
    /\ log' = Append(log, <<"POMIJAM", PAIRS[pair_idx]>>)
    /\ pair_idx' = pair_idx + 1
    /\ UNCHANGED <<pc, all_models_parts, df_models, df, fuse_calls, files>>
    /\ mainFrame

\* fetch_hourly returns, summarize_dayparts raises KeyError.
SummarizeFails ==
    /\ pc = "loop"
    /\ pair_idx <= Len(PAIRS)
    /\ attempts' = [attempts EXCEPT ![pair_idx] = @ + 1]
    /\ fetched' = [fetched EXCEPT ![pair_idx] = MissingColumn]
    /\ log' = Append(log, <<"POMIJAM", PAIRS[pair_idx]>>)
    /\ pair_idx' = pair_idx + 1
    /\ UNCHANGED <<pc, all_models_parts, df_models, df, fuse_calls, files>>
    /\ mainFrame

\* Both calls return; a non-empty summary is appended.
FetchOk ==
    /\ pc = "loop"
    /\ pair_idx <= Len(PAIRS)
    /\ \E t \in MAIN_TABLES :
          LET s == summarize_dayparts(t, PAIRS[pair_idx][1], PAIRS[pair_idx][2])
          IN  /\ fetched' = [fetched EXCEPT ![pair_idx] = Answer(t)]
              /\ all_models_parts' = IF s # <<>> THEN Append(all_models_parts, s)
                                     ELSE all_models_parts
    /\ attempts' = [attempts EXCEPT ![pair_idx] = @ + 1]
    /\ log' = Append(log, <<"OK", PAIRS[pair_idx]>>)
    /\ pair_idx' = pair_idx + 1
    /\ UNCHANGED <<pc, df_models, df, fuse_calls, files>>
    /\ mainFrame

\* raise SystemExit(...) when the list of summaries is empty.
FatalExit_anyfail ==
    /\ pc = "loop"
    /\ pair_idx = Len(PAIRS) + 1
    /\ Len(all_models_parts) < Len(PAIRS)
    /\ pc' = "exit"
    /\ UNCHANGED <<pair_idx, attempts, fetched, log, all_models_parts, df_models, df,
                   fuse_calls, files>>
    /\ mainFrame

FatalExit ==
    /\ pc = "loop"
    /\ pair_idx = Len(PAIRS) + 1
    /\ all_models_parts = <<>>
    /\ pc' = "exit"
    /\ UNCHANGED <<pair_idx, attempts, fetched, log, all_models_parts, df_models, df,
                   fuse_calls, files>>
    /\ mainFrame

\* pd.concat(all_models_parts, ignore_index=True) and average_across_models.
Fuse_partial ==
    /\ pc = "loop"
    /\ all_models_parts # <<>>
    /\ df_models' = Concat(all_models_parts)
    /\ df' = average_across_models(df_models')
    /\ fuse_calls' = fuse_calls + 1
    /\ pc' = "render"
    /\ UNCHANGED <<pair_idx, attempts, fetched, log, all_models_parts, files>>
    /\ mainFrame

Fuse ==
    /\ pc = "loop"
    /\ pair_idx = Len(PAIRS) + 1
    /\ all_models_parts # <<>>
    /\ df_models' = Concat(all_models_parts)
    /\ df' = average_across_models(df_models')
    /\ fuse_calls' = fuse_calls + 1
    /\ pc' = "render"
    /\ UNCHANGED <<pair_idx, attempts, fetched, log, all_models_parts, files>>
    /\ mainFrame

\* make_section for every location.  int() of a missing snieg_modele_ile or
\* snieg_modele_pct raises ValueError; for a location without rows the
\* row-wise apply returns an empty frame, whose assignment to one column is
\* accepted or refused depending on the pandas release.
RenderRaises ==
    /\ pc = "render"
    /\ ~ /\ \A i \in 1..Len(df) : df[i].snieg_modele_ile # None /\ df[i].snieg_modele_pct # None
         /\ \A l \in 1..Len(LOCATIONS) : \E i \in 1..Len(df) : df[i].miejsce = LOCATIONS[l]
    /\ pc' = "crashed"
    /\ UNCHANGED <<pair_idx, attempts, fetched, log, all_models_parts, df_models, df,
                   fuse_calls, files>>
    /\ mainFrame

RenderOk ==
    /\ pc = "render"
    /\ \A i \in 1..Len(df) : df[i].snieg_modele_ile # None /\ df[i].snieg_modele_pct # None
    /\ pc' = "write_html"
    /\ UNCHANGED <<pair_idx, attempts, fetched, log, all_models_parts, df_models, df,
                   fuse_calls, files>>
    /\ mainFrame

WriteHtml ==
    /\ pc = "write_html"
    /\ files' = files \cup {"raport_pogoda.html"}
    /\ pc' = "write_csv"
    /\ UNCHANGED <<pair_idx, attempts, fetched, log, all_models_parts, df_models, df,
                   fuse_calls>>
    /\ mainFrame

WriteCsv ==
    /\ pc = "write_csv"
    /\ files' = files \cup {"pogoda_7dni_4pory.csv"}
    /\ pc' = "done"
    /\ UNCHANGED <<pair_idx, attempts, fetched, log, all_models_parts, df_models, df,
                   fuse_calls>>
    /\ mainFrame

Next ==
    \/ FetchFails
    \/ SummarizeFails
    \/ FetchOk
    \/ FatalExit
    \/ Fuse
    \/ RenderRaises
    \/ RenderOk
    \/ WriteHtml
    \/ WriteCsv

Spec == Init /\ [][Next]_vars

-----------------------------------------------------------------------------
(* C8 *)

Read0(x) == IF x = None THEN Q0 ELSE x

Below01(x) == x # NaN /\ 10 * Read0(x)[1] < Read0(x)[2]

AtLeast01(x) == x # NaN /\ 10 * Read0(x)[1] >= Read0(x)[2]

\* C8: classify_precip returns exactly one of the four labels for every
\* input, with a missing input read as 0.0: brak when both are below 0.1,
\* snieg when only snow reaches 0.1, deszcz when only rain does, mieszane
\* when both do.
C8_ClassifyTotal ==
    pc = "done" =>
        /\ label \in LABELS
        /\ (Below01(rain_mm) /\ Below01(snow_mm)) => label = "brak"
        /\ (AtLeast01(snow_mm) /\ Below01(rain_mm)) => label = "snieg"
        /\ (AtLeast01(rain_mm) /\ Below01(snow_mm)) => label = "deszcz"
        /\ (AtLeast01(rain_mm) /\ AtLeast01(snow_mm)) => label = "mieszane"

C8_Witness ==
    /\ pc = "done"
    /\ rain_mm = None
    /\ snow_mm = Q(1, 2)
    /\ label = "snieg"

-----------------------------------------------------------------------------
(* C6 *)

\* The day-part of an hour, by arithmetic: four blocks of six hours.
BlockOf(h) == PARTS[(h \div 6) + 1]

RecordsOf(date, part) ==
    {i \in 1..Len(hourly) : hourly[i].date = date /\ BlockOf(hourly[i].hour) = part}

RECURSIVE SumPrecip(_)
SumPrecip(I) ==
    IF I = {} THEN Q0
    ELSE LET i == CHOOSE j \in I : TRUE
             v == IF hourly[i].precipitation = None THEN Q0 ELSE hourly[i].precipitation
         IN  QAdd(v, SumPrecip(I \ {i}))

RowsAt(date, part) ==
    {j \in 1..Len(summary) : summary[j].data = date /\ summary[j].pora_dnia = part}

\* C6: every hour 0..23 lies in exactly one day-part; every hourly record is
\* counted in exactly one output row, that of its date and six-hour block;
\* a bucket with records has exactly one row and one without has none.
C6_Partition ==
    pc = "done" =>
        /\ \A h \in 0..23 : PartsOfHour(h) = {BlockOf(h)}
        /\ \A i \in 1..Len(hourly) :
              Cardinality(RowsAt(hourly[i].date, BlockOf(hourly[i].hour))) = 1
        /\ \A j \in 1..Len(summary) :
              /\ RecordsOf(summary[j].data, summary[j].pora_dnia) # {}
              /\ RowsAt(summary[j].data, summary[j].pora_dnia) = {j}
              /\ summary[j].opad_mm_suma =
                    SumPrecip(RecordsOf(summary[j].data, summary[j].pora_dnia))

\* A table that starts inside a day and covers three buckets of it, so the
\* first day-part of that date has no record and no row.
C6_Witness ==
    /\ pc = "done"
    /\ Len(summary) = 3
    /\ hourly[1].hour = 11
    /\ summary[1].pora_dnia = "rano"
    /\ summary[3].pora_dnia = "wieczor"
    /\ summary[2].opad_mm_suma # Q0

-----------------------------------------------------------------------------
(* C1, C2, C3: the orchestration loop *)

\* The summary of every possible answer for every pair, tabulated.
SummaryOf[t \in MAIN_TABLES, k \in 1..Len(PAIRS)] ==
    summarize_dayparts(t, PAIRS[k][1], PAIRS[k][2])

\* What pair k hands to the ensemble input, from the answer it got.
RowsOfPair(k) ==
    IF fetched[k].kind = "table" THEN SummaryOf[fetched[k].table, k] ELSE <<>>

Failed(k) == fetched[k].kind \in {"fetch_error", "missing_column"}

RowsFrom(rows, k) ==
    SelectSeq(rows, LAMBDA r : r.miejsce = PAIRS[k][1] /\ r.model = PAIRS[k][2])

\* C1: every pair is attempted exactly once, in loop order, whatever the
\* earlier pairs did; a pair whose fetch or summary raised contributes no
\* row, and a pair with a non-empty summary has exactly its rows in the
\* collected parts and in the ensemble input.
C1_EveryPairAttemptedOnce ==
    /\ \A k \in 1..Len(PAIRS) : attempts[k] = IF k < pair_idx THEN 1 ELSE 0
    /\ pc # "loop" => pair_idx = Len(PAIRS) + 1
    /\ \A k \in 1..Len(PAIRS) :
          LET collected == RowsFrom(Concat(all_models_parts), k)
          IN  /\ Failed(k) => collected = <<>>
              /\ collected = RowsOfPair(k)
              /\ fuse_calls > 0 => RowsFrom(df_models, k) = collected

C1_Witness ==
    /\ pc = "done"
    /\ fetched[1].kind = "fetch_error"
    /\ fetched[2].kind = "table"
    /\ fetched[3].kind = "missing_column"
    /\ RowsFrom(df_models, 2) # <<>>
    /\ RowsFrom(df_models, Len(PAIRS)) # <<>>

Usable == \E k \in 1..Len(PAIRS) : RowsOfPair(k) # <<>>

\* C2: once the loop is over the run takes the fatal exit exactly when no
\* pair produced a non-empty summary; on the fatal exit the fusion was never
\* called and no file was written; otherwise the fusion is called.
C2_FatalExitIffNothingUsable ==
    /\ pc = "exit" =>
          /\ pair_idx = Len(PAIRS) + 1
          /\ ~Usable
          /\ fuse_calls = 0
          /\ files = {}
    /\ (pc # "loop" /\ ~Usable) => pc = "exit"
    /\ (pc # "loop" /\ Usable) => (pc # "exit" /\ fuse_calls = 1)

C2_Witness ==
    /\ pc = "exit"
    /\ \A k \in 1..Len(PAIRS) : fetched[k].kind = "fetch_error"

\* C3: the fusion is called at most once and only when no pair is pending;
\* its input is the concatenation, in loop order, of the rows of every pair
\* that succeeded.
C3_FusionAfterAllPairs ==
    fuse_calls > 0 =>
        /\ fuse_calls = 1
        /\ \A k \in 1..Len(PAIRS) : attempts[k] = 1 /\ fetched[k] # Pending
        /\ df_models = Concat([k \in 1..Len(PAIRS) |-> RowsOfPair(k)])

C3_Witness ==
    /\ fuse_calls = 1
    /\ Failed(1)
    /\ RowsOfPair(2) # <<>>
    /\ RowsOfPair(Len(PAIRS)) # <<>>
    /\ Len(df_models) = Len(RowsOfPair(2)) + Len(RowsOfPair(Len(PAIRS)))

-----------------------------------------------------------------------------
(* C4, C5, C7, C9, C10: the fusion *)

KeyOf(r) == <<r.miejsce, r.data, r.pora_dnia>>

\* The positions of the input rows contributing to the key of an output row.
Contributors(r) == {j \in 1..Len(df_models) : KeyOf(df_models[j]) = KeyOf(r)}

Suppliers(r) == {df_models[j].model : j \in Contributors(r)}

\* C4: in every output row the model count equals the number of names in
\* the model list, and the names listed are exactly the distinct models
\* that supplied a row for the key.
C4_CountMatchesList ==
    pc = "done" =>
        \A i \in 1..Len(df) :
            /\ df[i].liczba_modeli = Len(df[i].modele_uzyte)
            /\ df[i].liczba_modeli = Cardinality(Suppliers(df[i]))
            /\ {df[i].modele_uzyte[k] : k \in 1..Len(df[i].modele_uzyte)} = Suppliers(df[i])

\* Three models in the input, one of which has no row for a key the other
\* two cover.
C4_Witness ==
    /\ pc = "done"
    /\ Cardinality({df_models[j].model : j \in 1..Len(df_models)}) = 3
    /\ \E i \in 1..Len(df) :
          /\ df[i].liczba_modeli = 2
          /\ df[i].modele_uzyte = <<"forecast_auto", "gfs">>

\* C5: after the fusion of a non-empty input the output has exactly one row
\* for each key of the input and no row for any other key, so every output
\* row has at least one contributing model.
C5_OneRowPerInputKey ==
    fuse_calls > 0 =>
        /\ {KeyOf(df[i]) : i \in 1..Len(df)} = {KeyOf(df_models[j]) : j \in 1..Len(df_models)}
        /\ \A i, k \in 1..Len(df) : KeyOf(df[i]) = KeyOf(df[k]) => i = k
        /\ \A i \in 1..Len(df) : df[i].liczba_modeli > 0

Reverse(s) == [i \in 1..Len(s) |-> s[Len(s) + 1 - i]]

\* The output row of a frame for the key of r (the frame has one).
RowFor(frame, r) == frame[CHOOSE i \in 1..Len(frame) : KeyOf(frame[i]) = KeyOf(r)]

MostFrequent(cells, res) ==
    IF cells = <<>> THEN res = None
    ELSE /\ Len(res) = 1
         /\ \E j \in 1..Len(cells) : cells[j] = res[1]
         /\ \A j \in 1..Len(cells) : CountOf(cells, cells[j]) <= CountOf(cells, res[1])

CellsOf(r, col) ==
    Column(SelectSeq(df_models, LAMBDA x : KeyOf(x) = KeyOf(r)), col)

\* The part of C7 that does not concern ties: the vote is a most frequent
\* value of the group, and missing exactly when the group has no value.
MajorityIsMostFrequent ==
    pc = "done" =>
        \A i \in 1..Len(df) :
            /\ MostFrequent(CellsOf(df[i], "typ_opadu"), df[i].typ_opadu)
            /\ MostFrequent(CellsOf(df[i], "mgla"), df[i].mgla)

\* C7: the vote is a most frequent value of the group (missing when there
\* is none), and it does not depend on the order in which the rows of the
\* models were collected: the frame with its rows in the opposite order
\* gives the same vote for every key.
C7_VoteIndependentOfOrder ==
    pc = "done" =>
        \A i \in 1..Len(df) :
            /\ MostFrequent(CellsOf(df[i], "typ_opadu"), df[i].typ_opadu)
            /\ MostFrequent(CellsOf(df[i], "mgla"), df[i].mgla)
            /\ RowFor(average_across_models(Reverse(df_models)), df[i]).typ_opadu
                  = df[i].typ_opadu
            /\ RowFor(average_across_models(Reverse(df_models)), df[i]).mgla = df[i].mgla

RECURSIVE SumCells(_, _)
SumCells(J, col) ==
    IF J = {} THEN Q0
    ELSE LET j == CHOOSE x \in J : TRUE
         IN  QAdd(df_models[j][col], SumCells(J \ {j}, col))

NonNull(r, col) == {j \in Contributors(r) : df_models[j][col] # None}

\* out is the mean total/n rounded to one decimal: a multiple of 0.1 at
\* most 0.05 away from it.
IsMeanToOneDecimal(out, total, n) ==
    /\ out # None
    /\ 10 % out[2] = 0
    /\ 20 * Abs(out[1] * total[2] * n - total[1] * out[2]) <= out[2] * total[2] * n

\* C9: every numeric metric of an output row is the mean, to one decimal,
\* of the non-missing values of the contributing rows (missing values
\* enter neither the sum nor the denominator), and it is missing exactly
\* when every contributing row has the metric missing.
C9_MeanOfNonNull ==
    pc = "done" =>
        \A i \in 1..Len(df) : \A c \in 1..Len(NUMERIC_COLS) :
            LET col == NUMERIC_COLS[c]
                J   == NonNull(df[i], col)
            IN  IF J = {} THEN df[i][col] = None
                ELSE IsMeanToOneDecimal(df[i][col], SumCells(J, col), Cardinality(J))

\* Temperatures 12.0, missing and 10.0 from three models give 11.0.
C9_Witness ==
    /\ pc = "done"
    /\ \E i \in 1..Len(df) :
          /\ df[i].liczba_modeli = 3
          /\ df[i].temp_C_srednia = Q(11, 1)
          /\ \E j \in Contributors(df[i]) : df_models[j].temp_C_srednia = None
          /\ \E j \in Contributors(df[i]) : df_models[j].temp_C_srednia = Q(10, 1)
          /\ \E j \in Contributors(df[i]) : df_models[j].temp_C_srednia = Q(12, 1)

SnowSuppliers(r) ==
    {j \in Contributors(r) :
        LET v == IF df_models[j].snieg_suma = None THEN Q0 ELSE df_models[j].snieg_suma
        IN  10 * v[1] >= v[2]}

\* p is 100 * k / n rounded to the nearest whole percent.
IsPercentOf(p, k, n) ==
    /\ p # None
    /\ p[2] = 1
    /\ 2 * Abs(p[1] * n - 100 * k) <= n

SnowStatsOf(r) ==
    LET k == Cardinality(SnowSuppliers(r))
        n == r.liczba_modeli
    IN  /\ r.snieg_modele_ile = Q(k, 1)
        /\ k <= n
        /\ IF n = 0 THEN r.snieg_modele_pct = Q0
           ELSE IsPercentOf(r.snieg_modele_pct, k, n)

\* C10: in every output row the snow model count is the number of
\* contributing models with a snow sum of at least 0.1 mm, it is at most
\* the model count, and the snow percentage is 100 * count / model count to
\* the nearest whole percent, 0 when the row has no contributing model.
C10_SnowStats ==
    pc = "done" => \A i \in 1..Len(df) : SnowStatsOf(df[i])

\* The same restricted to the rows that have a contributing model.
SnowStatsOfObservedKeys ==
    pc = "done" => \A i \in 1..Len(df) : df[i].liczba_modeli > 0 => SnowStatsOf(df[i])

TwoOfThreeIs67 ==
    pc = "done" /\ \E i \in 1..Len(df) :
        /\ df[i].liczba_modeli = 3
        /\ df[i].snieg_modele_ile = Q(2, 1)
        /\ df[i].snieg_modele_pct = Q(67, 1)

=============================================================================
